---------------------------- MODULE Spec2Model ----------------------------
(***************************************************************************)
(* Call-session lifecycle of the MedicalVoiceAgent page component          *)
(* (src/app/(routes)/dashboard/medical-agent/[sessionId]/page.tsx).        *)
(*                                                                         *)
(* The model covers the component for as long as it is mounted.  The React *)
(* state cells are the variables sessionDetail .. loading, the ref is      *)
(* vapiHandlersRef.  Every Vapi object created by StartCall is a channel,  *)
(* numbered 1, 2, ... in creation order; 0 stands for null.  A channel     *)
(* delivers an event to the component whenever a listener for that event   *)
(* kind is registered on it: the channel is an event emitter outside the   *)
(* repository, so the order and the moment of its events are free.         *)
(* A click is possible only on a button that is rendered and enabled.      *)
(***************************************************************************)
EXTENDS Naturals, Sequences, FiniteSets, TLC

(* ------------------------------ bounds -------------------------------- *)

\* Spec explores the call lifecycle: several calls and reports, few payloads.
\* Vapi objects created during one page visit.
MaxCalls == 3
\* Report submissions during one page visit.
MaxReports == 2
\* Entries of the finalized log.
MaxLog == 2

\* SpecTranscript explores the transcript handling: every payload of Msgs, one call.
AsmCalls == 1
AsmReports == 1
AsmLog == 2

\* SpecNormalizer explores the error normalizer: every payload of ErrInputs.
NormCalls == 1

\* SpecTeardown explores endCall with vapi.stop() and vapi.off() throwing.
TdCalls == 2
TdReports == 2

(* --------------------------- JavaScript values ------------------------ *)

Str(s) == [tag |-> "string", val |-> s]
Num(s) == [tag |-> "number", val |-> s]
Undef == [tag |-> "undefined", val |-> ""]
JSNull == [tag |-> "null", val |-> ""]

\* typeof v === 'string'
IsString(v) == v.tag = "string"

Null == 0

\* The six event kinds StartCall subscribes to.
Kinds == {"call-start", "call-end", "message", "speech-start", "speech-end", "error"}

(* ------------------------- message payloads --------------------------- *)

Obj(t, r, tt, tx) == [obj |-> TRUE, type |-> t, role |-> r, transcriptType |-> tt, transcript |-> tx]

\* A payload that is no object (null, undefined): every msg?.field is undefined.
NonObject == [obj |-> FALSE, type |-> Undef, role |-> Undef, transcriptType |-> Undef, transcript |-> Undef]

\* msg?.f
Field(m, f) == IF m.obj THEN m[f] ELSE Undef

Transcript(r, tt, tx) == Obj(Str("transcript"), Str(r), Str(tt), Str(tx))

\* Partial events of either role, with and without text; final events of either role.
WellFormedMsgs ==
    { Transcript("user", "partial", "a"), Transcript("assistant", "partial", "a"),
      Transcript("assistant", "partial", ""),
      Transcript("user", "final", "a"), Transcript("assistant", "final", "b") }

\* A payload with a field missing, mistyped or off-vocabulary, and one that is no object.
MalformedMsgs ==
    { Obj(Str("status-update"), Str("user"), Str("final"), Str("a")),
      Obj(Undef, Str("user"), Str("partial"), Str("a")),
      Obj(Str("transcript"), Num("7"), Str("final"), Str("a")),
      Obj(Str("transcript"), Str("user"), Str("interim"), Str("a")),
      Obj(Str("transcript"), Str("user"), Str("partial"), Undef),
      NonObject }

Msgs == WellFormedMsgs \cup MalformedMsgs

\* The payloads Spec delivers: one final, one partial and one malformed.
LifeMsgs ==
    { Transcript("user", "final", "a"), Transcript("assistant", "partial", "a"), NonObject }

NoMsg == NonObject

(* --------------------------- error payloads --------------------------- *)

\* The innermost level, err.error.error: an object with a message field, or anything
\* that is no object (absent, null, a primitive).
Inner(msg) == [obj |-> TRUE, message |-> msg]
NoInner == [obj |-> FALSE, message |-> Undef]

\* The middle level, err.error.
Sub(em, msg, inner) == [obj |-> TRUE, errorMsg |-> em, message |-> msg, error |-> inner]
NoSub == [obj |-> FALSE, errorMsg |-> Undef, message |-> Undef, error |-> NoInner]

\* err itself: an object, or a string (whose fields all read undefined).
ErrObj(em, msg, sub) == [str |-> Undef, errorMsg |-> em, message |-> msg, error |-> sub]
ErrStr(t) == [str |-> Str(t), errorMsg |-> Undef, message |-> Undef, error |-> NoSub]
NoErr == ErrObj(Undef, Undef, NoSub)

\* What a field may hold: nothing, a non-string, the empty string, a text naming
\* the field it sits in.
FieldVals(label) == {Undef, Num("5"), Str(""), Str(label)}

Inners == {NoInner} \cup {Inner(m) : m \in FieldVals("error.error.message")}

Subs ==
    {NoSub} \cup { Sub(em, m, i) : em \in FieldVals("error.errorMsg"),
                                   m \in FieldVals("error.message"), i \in Inners }

ErrInputs ==
    { ErrObj(em, m, sub) : em \in FieldVals("errorMsg"), m \in FieldVals("message"),
                           sub \in Subs }
    \cup { ErrStr(""), ErrStr("raw") }

\* The error payload Spec and SpecTranscript deliver.
LifeErrs == { ErrObj(Undef, Str("message"), NoSub) }

\* typeof v === 'string' && v
Truthy(v) == IsString(v) /\ v.val # ""

Fallback == "Call ended unexpectedly."

\* Mutant of ErrorMessage: the direct message field is tried before the nested ones.
ErrorMessageDirectFirst(err) ==
    LET nested == IF err.error.obj THEN err.error ELSE NoSub
        nestedInner == IF nested.error.obj THEN nested.error ELSE NoInner
    IN  IF Truthy(err.errorMsg) THEN err.errorMsg.val
        ELSE IF Truthy(err.message) THEN err.message.val
        ELSE IF Truthy(nested.errorMsg) THEN nested.errorMsg.val
        ELSE IF Truthy(nested.message) THEN nested.message.val
        ELSE IF Truthy(nestedInner.message) THEN nestedInner.message.val
        ELSE IF IsString(err.str) THEN err.str.val
        ELSE Fallback

\* The msg computed by handleError.
ErrorMessage(err) ==
    LET nested == IF err.error.obj THEN err.error ELSE NoSub
        nestedInner == IF nested.error.obj THEN nested.error ELSE NoInner
    IN  IF Truthy(err.errorMsg) THEN err.errorMsg.val
        ELSE IF Truthy(nested.errorMsg) THEN nested.errorMsg.val
        ELSE IF Truthy(nested.message) THEN nested.message.val
        ELSE IF Truthy(nestedInner.message) THEN nestedInner.message.val
        ELSE IF Truthy(err.message) THEN err.message.val
        ELSE IF IsString(err.str) THEN err.str.val
        ELSE Fallback

\* The order in which endCall calls vapiInstance.off.
OffOrder == <<"call-start", "call-end", "message", "speech-start", "speech-end", "error">>

\* What may throw while endCall tears the channel down.  stop: vapiInstance.stop()
\* threw; offs: the number of off calls that returned before one threw.
NoThrow == [stop |-> FALSE, offs |-> Len(OffOrder)]
Throws == [stop : BOOLEAN, offs : 0..Len(OffOrder)]

\* The notifications of the component.
NoToast == "<none>"
MissingKeyToast == "Missing NEXT_PUBLIC_VAPI_API_KEY"
ReportToast == "Your report is generated!"

(* ------------------------------ state --------------------------------- *)

VARIABLES
    apiKey,          \* process.env.NEXT_PUBLIC_VAPI_API_KEY is set
    sessionDetail,   \* useState: the session descriptor has been loaded
    callStarted,     \* useState
    vapiInstance,    \* useState: channel id or Null
    currentRole,     \* useState: JSNull or Str(role)
    liveTranscript,  \* useState: string
    messages,        \* useState: the finalized log
    loading,         \* useState
    vapiHandlersRef, \* useRef: id of the channel whose handlers it holds, or Null
    calls,           \* number of Vapi objects created so far
    listeners,       \* per channel: event kinds with a listener registered
    stopped,         \* channels on which vapi.stop() was requested
    inflight,        \* report requests awaiting their response
    reports,         \* submissions received by /api/medical-report, in order
    uuids,           \* number of identifiers drawn from crypto.randomUUID()
    toast,           \* the notification the last operation raised, or NoToast
    op,              \* history: the operation that produced this state
    forfeit,         \* history: the latest call was hit by an error while it was
                     \* connected and no stop() had been requested for it
    cleanStart       \* history: a channel was opened, no stop()/call-end/error since

state == <<sessionDetail, callStarted, vapiInstance, currentRole, liveTranscript,
           messages, loading, vapiHandlersRef>>
world == <<apiKey, calls, listeners, stopped, inflight, reports, uuids, toast>>
ghost == <<op, forfeit, cleanStart>>
vars == <<state, world, ghost>>

\* chan: the channel a click or a report response is about (the vapiInstance of the
\* clicked closure, the Vapi object a start created); Null for channel events.
\* err: the payload of an error event; threw: what threw while endCall resumed.
Op(n, c, m) == [name |-> n, chan |-> c, msg |-> m, err |-> NoErr, threw |-> NoThrow]

Init ==
    /\ apiKey \in BOOLEAN
    /\ sessionDetail = FALSE
    /\ callStarted = FALSE
    /\ vapiInstance = Null
    /\ currentRole = JSNull
    /\ liveTranscript = ""
    /\ messages = <<>>
    /\ loading = FALSE
    /\ vapiHandlersRef = Null
    /\ calls = 0
    /\ listeners = <<>>
    /\ stopped = {}
    /\ inflight = {}
    /\ reports = <<>>
    /\ uuids = 0
    /\ toast = NoToast
    /\ op = Op("init", Null, NoMsg)
    /\ forfeit = FALSE
    /\ cleanStart = FALSE

(* ------------------------ the component's code ------------------------ *)

resetCallState ==
    /\ callStarted' = FALSE
    /\ vapiInstance' = Null
    /\ currentRole' = JSNull
    /\ liveTranscript' = ""
    /\ loading' = FALSE

\* GetSessionDetails: the lookup answered and setSessionDetail ran.
GetSessionDetails ==
    /\ sessionDetail' = TRUE
    /\ UNCHANGED <<callStarted, vapiInstance, currentRole, liveTranscript, messages,
                   loading, vapiHandlersRef>>

\* Mutant of StartCall: the channel is opened without looking at the credential.
StartCallKeyUnchecked ==
    IF ~sessionDetail
    THEN UNCHANGED <<state, calls, listeners>> /\ toast' = NoToast
    ELSE LET vapi == calls + 1 IN
         /\ loading' = TRUE
         /\ calls' = vapi
         /\ vapiInstance' = vapi
         /\ vapiHandlersRef' = vapi
         /\ listeners' = Append(listeners, Kinds)
         /\ toast' = NoToast
         /\ UNCHANGED <<sessionDetail, callStarted, currentRole, liveTranscript, messages>>

\* The body of StartCall.  new Vapi(apiKey) is channel calls + 1; the six vapi.on
\* calls register its listeners.
StartCall ==
    IF ~sessionDetail
    THEN UNCHANGED <<state, calls, listeners>> /\ toast' = NoToast
    ELSE IF ~apiKey
    THEN /\ loading' = FALSE
         /\ toast' = MissingKeyToast
         /\ UNCHANGED <<sessionDetail, callStarted, vapiInstance, currentRole,
                        liveTranscript, messages, vapiHandlersRef>>
         /\ UNCHANGED <<calls, listeners>>
    ELSE LET vapi == calls + 1 IN
         /\ loading' = TRUE
         /\ calls' = vapi
         /\ vapiInstance' = vapi
         /\ vapiHandlersRef' = vapi
         /\ listeners' = Append(listeners, Kinds)
         /\ toast' = NoToast
         /\ UNCHANGED <<sessionDetail, callStarted, currentRole, liveTranscript, messages>>

handleCallStart ==
    /\ loading' = FALSE
    /\ callStarted' = TRUE
    /\ UNCHANGED <<sessionDetail, vapiInstance, currentRole, liveTranscript, messages,
                   vapiHandlersRef>>

handleCallEnd ==
    /\ resetCallState
    /\ vapiHandlersRef' = Null
    /\ UNCHANGED <<sessionDetail, messages>>

\* Mutant of IsTranscript: the typeof test of msg.role is left out.
IsTranscriptRoleUnchecked(m) ==
    /\ Field(m, "type") = Str("transcript")
    /\ IsString(Field(m, "transcriptType"))
    /\ IsString(Field(m, "transcript"))

\* The shape test of handleMessage.
IsTranscript(m) ==
    /\ Field(m, "type") = Str("transcript")
    /\ IsString(Field(m, "role"))
    /\ IsString(Field(m, "transcriptType"))
    /\ IsString(Field(m, "transcript"))

\* Mutant of onPartial: setCurrentRole(role) is left out.
onPartialRoleKept(role, transcript) ==
    /\ liveTranscript' = transcript.val
    /\ UNCHANGED <<currentRole, messages, uuids>>

\* The 'partial' branch of handleMessage.
onPartial(role, transcript) ==
    /\ liveTranscript' = transcript.val
    /\ currentRole' = role
    /\ UNCHANGED <<messages, uuids>>

\* crypto.randomUUID(): an identifier never handed out before.
randomUUID == uuids + 1

\* Mutant of onFinal: the new entry is put in front of the log.
onFinalPrepends(role, transcript) ==
    /\ messages' = <<[id |-> randomUUID, role |-> role.val, text |-> transcript.val]>>
                    \o messages
    /\ uuids' = uuids + 1
    /\ liveTranscript' = ""
    /\ currentRole' = JSNull

\* The 'final' branch of handleMessage.
onFinal(role, transcript) ==
    /\ messages' = Append(messages, [id |-> randomUUID, role |-> role.val,
                                     text |-> transcript.val])
    /\ uuids' = uuids + 1
    /\ liveTranscript' = ""
    /\ currentRole' = JSNull

handleMessage(m) ==
    /\ IF IsTranscript(m)
       THEN IF Field(m, "transcriptType") = Str("partial")
            THEN onPartial(Field(m, "role"), Field(m, "transcript"))
            ELSE IF Field(m, "transcriptType") = Str("final")
            THEN onFinal(Field(m, "role"), Field(m, "transcript"))
            ELSE UNCHANGED <<messages, uuids, liveTranscript, currentRole>>
       ELSE UNCHANGED <<messages, uuids, liveTranscript, currentRole>>
    /\ UNCHANGED <<sessionDetail, callStarted, vapiInstance, loading, vapiHandlersRef>>

handleSpeechStart ==
    /\ currentRole' = Str("assistant")
    /\ UNCHANGED <<sessionDetail, callStarted, vapiInstance, liveTranscript, messages,
                   loading, vapiHandlersRef>>

handleSpeechEnd ==
    /\ currentRole' = Str("user")
    /\ UNCHANGED <<sessionDetail, callStarted, vapiInstance, liveTranscript, messages,
                   loading, vapiHandlersRef>>

handleError(err) ==
    /\ resetCallState
    /\ vapiHandlersRef' = Null
    /\ toast' = ErrorMessage(err)
    /\ UNCHANGED <<sessionDetail, messages>>

\* Mutant of GenerateReport: only the newest entry of the log is posted.
GenerateReportNewestOnly ==
    /\ loading' = TRUE
    /\ reports' = Append(reports,
                         [call |-> calls,
                          log |-> IF messages = <<>> THEN <<>>
                                  ELSE <<messages[Len(messages)]>>])

\* GenerateReport up to its await: setLoading(true) and the POST of the log the
\* rendered closure holds.
GenerateReport ==
    /\ loading' = TRUE
    /\ reports' = Append(reports, [call |-> calls, log |-> messages])

\* endCall up to the await of GenerateReport.  The pending request remembers the
\* vapiInstance of the closure that was clicked: endCall reads it when it resumes.
endCall ==
    /\ GenerateReport
    /\ inflight' = inflight \cup {[rid |-> Len(reports) + 1, inst |-> vapiInstance]}
    /\ UNCHANGED <<sessionDetail, callStarted, vapiInstance, currentRole, liveTranscript,
                   messages, vapiHandlersRef>>

\* vapiInstance.off(kind, handlers.<kind>) for the first n kinds of OffOrder: a
\* listener is removed only when the function passed is the one registered on that
\* channel.
off(vapi, handlers, n) ==
    IF handlers = vapi
    THEN [listeners EXCEPT ![vapi] = @ \ {OffOrder[i] : i \in 1..n}]
    ELSE listeners

\* Mutant of endCallResume: what vapiInstance.stop() throws is not caught and ends
\* endCall there.
endCallResumeStopEscapes(r, t) ==
    IF r.inst = Null
    THEN /\ loading' = FALSE
         /\ UNCHANGED <<sessionDetail, callStarted, vapiInstance, currentRole,
                        liveTranscript, messages, vapiHandlersRef>>
         /\ UNCHANGED <<listeners, stopped>>
         /\ toast' = NoToast
    ELSE IF t.stop
    THEN /\ loading' = FALSE
         /\ stopped' = stopped \cup {r.inst}
         /\ UNCHANGED <<sessionDetail, callStarted, vapiInstance, currentRole,
                        liveTranscript, messages, vapiHandlersRef>>
         /\ UNCHANGED listeners
         /\ toast' = NoToast
    ELSE /\ stopped' = stopped \cup {r.inst}
         /\ listeners' = IF vapiHandlersRef # Null
                          THEN off(r.inst, vapiHandlersRef, t.offs)
                          ELSE listeners
         /\ resetCallState
         /\ vapiHandlersRef' = Null
         /\ toast' = ReportToast
         /\ UNCHANGED <<sessionDetail, messages>>

\* Mutant of endCallResume: vapiInstance.stop() is left out.
endCallResumeNoStop(r, t) ==
    IF r.inst = Null
    THEN /\ loading' = FALSE
         /\ UNCHANGED <<sessionDetail, callStarted, vapiInstance, currentRole,
                        liveTranscript, messages, vapiHandlersRef>>
         /\ UNCHANGED <<listeners, stopped>>
         /\ toast' = NoToast
    ELSE /\ UNCHANGED stopped
         /\ listeners' = IF vapiHandlersRef # Null
                          THEN off(r.inst, vapiHandlersRef, t.offs)
                          ELSE listeners
         /\ resetCallState
         /\ vapiHandlersRef' = Null
         /\ toast' = ReportToast
         /\ UNCHANGED <<sessionDetail, messages>>

\* The POST resolved: the rest of GenerateReport and the rest of endCall.  Both
\* try blocks swallow what t says was thrown; an off that throws skips the off
\* calls after it.
endCallResume(r, t) ==
    IF r.inst = Null
    THEN /\ loading' = FALSE
         /\ UNCHANGED <<sessionDetail, callStarted, vapiInstance, currentRole,
                        liveTranscript, messages, vapiHandlersRef>>
         /\ UNCHANGED <<listeners, stopped>>
         /\ toast' = NoToast
    ELSE /\ stopped' = stopped \cup {r.inst}
         /\ listeners' = IF vapiHandlersRef # Null
                          THEN off(r.inst, vapiHandlersRef, t.offs)
                          ELSE listeners
         /\ resetCallState
         /\ vapiHandlersRef' = Null
         /\ toast' = ReportToast
         /\ UNCHANGED <<sessionDetail, messages>>

\* The POST rejected: GenerateReport throws at its await, endCall throws at its own
\* and ends there; the promise the click handler dropped rejects unhandled.
endCallRejected(r) ==
    UNCHANGED <<state, listeners, stopped>> /\ toast' = NoToast

(* ------------------------------ actions ------------------------------- *)

\* Some channel has a listener registered for event kind k.
Listening(k) == \E c \in 1..calls : k \in listeners[c]

ReportCount(c) == Cardinality({i \in DOMAIN reports : reports[i].call = c})

\* The call on channel c is shown as connected and no stop() was requested for it.
Active(c) == callStarted /\ vapiInstance = c /\ inflight = {} /\ ReportCount(c) = 0

\* What the channel and the collaborators keep while an event is handled.
Quiet == UNCHANGED <<apiKey, calls, listeners, stopped, inflight, reports>>

\* The operation raises no notification.
Silent == toast' = NoToast

SessionLoads ==
    /\ ~sessionDetail
    /\ GetSessionDetails
    /\ UNCHANGED <<apiKey, calls, listeners, stopped, inflight, reports, uuids>>
    /\ Silent
    /\ op' = Op("load", Null, NoMsg)
    /\ UNCHANGED <<forfeit, cleanStart>>

\* The Start Call button is rendered when the descriptor is loaded and the call is
\* not shown as connected; it is disabled while loading.
ClickStart(maxCalls) ==
    /\ sessionDetail
    /\ ~callStarted
    /\ ~loading
    /\ calls < maxCalls
    /\ StartCall
    /\ UNCHANGED <<apiKey, stopped, inflight, reports, uuids>>
    /\ op' = Op("start", IF calls' # calls THEN calls' ELSE Null, NoMsg)
    /\ cleanStart' = IF calls' # calls THEN TRUE ELSE cleanStart
    /\ forfeit' = IF calls' # calls THEN FALSE ELSE forfeit

\* The Disconnect button is rendered and enabled.
DisconnectAccepted ==
    /\ sessionDetail
    /\ callStarted
    /\ ~loading

\* The Disconnect button is rendered when the call is shown as connected; it is
\* disabled while loading.
ClickDisconnect(maxReports) ==
    /\ DisconnectAccepted
    /\ Len(reports) < maxReports
    /\ endCall
    /\ UNCHANGED <<apiKey, calls, listeners, stopped, uuids>>
    /\ Silent
    /\ op' = Op("endCall", vapiInstance, NoMsg)
    /\ cleanStart' = FALSE
    /\ UNCHANGED forfeit

\* A throw is an input only where the call that throws is made.
Thrown(r, t) ==
    [stop |-> r.inst # Null /\ t.stop,
     offs |-> IF r.inst # Null /\ vapiHandlersRef # Null THEN t.offs ELSE NoThrow.offs]

ReportResolves(throws) ==
    \E r \in inflight, t \in throws :
        /\ t = Thrown(r, t)
        /\ endCallResume(r, t)
        /\ inflight' = inflight \ {r}
        /\ UNCHANGED <<apiKey, calls, reports, uuids>>
        /\ op' = [Op("resolve", r.inst, NoMsg) EXCEPT !.threw = t]
        /\ UNCHANGED <<forfeit, cleanStart>>

ReportRejects ==
    \E r \in inflight :
        /\ endCallRejected(r)
        /\ inflight' = inflight \ {r}
        /\ UNCHANGED <<apiKey, calls, reports, uuids>>
        /\ op' = Op("reject", r.inst, NoMsg)
        /\ UNCHANGED <<forfeit, cleanStart>>

OnCallStart ==
    /\ Listening("call-start")
    /\ handleCallStart
    /\ Quiet /\ UNCHANGED uuids /\ Silent
    /\ op' = Op("call-start", Null, NoMsg)
    /\ UNCHANGED <<forfeit, cleanStart>>

OnCallEnd ==
    /\ Listening("call-end")
    /\ handleCallEnd
    /\ Quiet /\ UNCHANGED uuids /\ Silent
    /\ op' = Op("call-end", Null, NoMsg)
    /\ cleanStart' = FALSE
    /\ UNCHANGED forfeit

OnMessage(payloads, maxLog) ==
    /\ Listening("message")
    /\ Len(messages) < maxLog
    /\ \E m \in payloads :
        /\ handleMessage(m)
        /\ op' = Op("message", Null, m)
    /\ Quiet /\ Silent
    /\ UNCHANGED <<forfeit, cleanStart>>

OnSpeechStart ==
    /\ Listening("speech-start")
    /\ handleSpeechStart
    /\ Quiet /\ UNCHANGED uuids /\ Silent
    /\ op' = Op("speech-start", Null, NoMsg)
    /\ UNCHANGED <<forfeit, cleanStart>>

OnSpeechEnd ==
    /\ Listening("speech-end")
    /\ handleSpeechEnd
    /\ Quiet /\ UNCHANGED uuids /\ Silent
    /\ op' = Op("speech-end", Null, NoMsg)
    /\ UNCHANGED <<forfeit, cleanStart>>

OnError(errs) ==
    \E c \in 1..calls, err \in errs :
        /\ "error" \in listeners[c]
        /\ handleError(err)
        /\ Quiet /\ UNCHANGED uuids
        /\ op' = [Op("error", Null, NoMsg) EXCEPT !.err = err]
        /\ forfeit' = (forfeit \/ (c = calls /\ Active(c)))
        /\ cleanStart' = FALSE

Step(maxCalls, maxReports, maxLog, payloads) ==
    \/ SessionLoads
    \/ ClickStart(maxCalls)
    \/ ClickDisconnect(maxReports)
    \/ ReportResolves({NoThrow})
    \/ ReportRejects
    \/ OnCallStart
    \/ OnCallEnd
    \/ OnMessage(payloads, maxLog)
    \/ OnSpeechStart
    \/ OnSpeechEnd
    \/ OnError(LifeErrs)

Next == Step(MaxCalls, MaxReports, MaxLog, LifeMsgs)

Spec == Init /\ [][Next]_vars

NextTranscript == Step(AsmCalls, AsmReports, AsmLog, Msgs)

SpecTranscript == Init /\ [][NextTranscript]_vars

NextNormalizer ==
    \/ SessionLoads
    \/ ClickStart(NormCalls)
    \/ OnCallStart
    \/ OnError(ErrInputs)

SpecNormalizer == Init /\ [][NextNormalizer]_vars

NextTeardown ==
    \/ SessionLoads
    \/ ClickStart(TdCalls)
    \/ ClickDisconnect(TdReports)
    \/ ReportResolves(Throws)
    \/ ReportRejects
    \/ OnCallStart
    \/ OnCallEnd
    \/ OnError(LifeErrs)

SpecTeardown == Init /\ [][NextTeardown]_vars

(* ------------------------------- claims ------------------------------- *)

\* The call state Idle: the call is not shown as connected and no handle is held.
IdleState == ~callStarted /\ vapiInstance = Null

\* C1: every call receives at most one report submission, whatever the order of
\* start/stop requests and channel events (a submission counts for the call that
\* was started last when it was sent).
C1_OneReportPerCall == \A c \in 1..calls : ReportCount(c) <= 1

\* C2: no listener is registered on any channel while the call state is Idle, and
\* the channel whose handle is held has one listener for each of the six kinds.
C2_ListenersMatchState ==
    /\ IdleState => \A c \in 1..calls : listeners[c] = {}
    /\ vapiInstance # Null => listeners[vapiInstance] = Kinds

\* C3: a start request opens a channel only if, since the previous channel was
\* opened, a stop() was requested or a call-end or error event was received.
C3_StartOnlyFromIdle == [][calls' # calls => ~cleanStart]_vars

\* C4: an error event received while the call is connected and no stop() was
\* requested leaves the state Idle with the busy flag and the in-progress utterance
\* cleared, and no report is ever submitted for that call.
C4_ErrorForfeitsReport ==
    /\ op.name = "error" => IdleState /\ ~loading /\ liveTranscript = ""
    /\ forfeit => ReportCount(calls) = 0

\* C5: with one call made and the state back to Idle, a message, call-start,
\* speech-start or speech-end event of that call changes neither the finalized log,
\* the in-progress utterance, the call state nor the speaker indicator.
C5_LateEventsIgnored ==
    [][(IdleState /\ calls = 1
        /\ op'.name \in {"message", "call-start", "speech-start", "speech-end"})
       => UNCHANGED <<messages, liveTranscript, callStarted, currentRole>>]_vars

\* C6: when the report request of a stop() on a held channel is rejected, that
\* channel has been closed, its listeners are deregistered, the busy flag is clear
\* and the call state is Idle.
C6_RejectedReportStillIdle ==
    (op.name = "reject" /\ op.chan # Null)
    => /\ op.chan \in stopped
       /\ listeners[op.chan] = {}
       /\ ~loading
       /\ IdleState

\* C7: a stop() requested while no channel handle is held submits no report, does
\* nothing to any channel and leaves call state, busy flag and log unchanged.
C7_StopWithoutHandleIsNoOp ==
    [][(op'.name = "endCall" /\ vapiInstance = Null)
       => UNCHANGED <<reports, inflight, stopped, listeners, callStarted, vapiInstance,
                      loading, messages>>]_vars

\* A well-formed transcript event of the given transcriptType was just delivered.
Delivered(tt) ==
    /\ op'.name = "message"
    /\ op'.msg \in WellFormedMsgs
    /\ op'.msg.transcriptType = Str(tt)

\* C8: after a well-formed partial event the in-progress utterance has the role and
\* the text of that event, and the finalized log is what it was before the event.
C8_PartialReplaces ==
    [][Delivered("partial")
       => /\ liveTranscript' = op'.msg.transcript.val
          /\ currentRole' = op'.msg.role
          /\ messages' = messages]_vars

\* C8 witness: a partial event of the assistant arrived after another utterance had
\* been finalized, and the in-progress utterance shows it.
C8_Witness ==
    /\ op = Op("message", Null, Transcript("assistant", "partial", "a"))
    /\ liveTranscript = "a"
    /\ currentRole = Str("assistant")
    /\ Len(messages) = 1

\* C9: a well-formed final event appends exactly one entry with the event's role and
\* text and an id no earlier entry has, and clears the in-progress utterance; no
\* step ever edits, removes or moves an entry of the log.
C9_FinalAppends ==
    [][/\ Delivered("final")
          => /\ Len(messages') = Len(messages) + 1
             /\ messages'[Len(messages')].role = op'.msg.role.val
             /\ messages'[Len(messages')].text = op'.msg.transcript.val
             /\ \A i \in 1..Len(messages) : messages[i].id # messages'[Len(messages')].id
             /\ liveTranscript' = ""
             /\ currentRole' = JSNull
       /\ Len(messages') >= Len(messages)
       /\ SubSeq(messages', 1, Len(messages)) = messages]_vars

\* C9 witness: a final event of the assistant was appended behind an earlier entry
\* of the user.
C9_Witness ==
    /\ op = Op("message", Null, Transcript("assistant", "final", "b"))
    /\ Len(messages) = 2
    /\ messages[1].role = "user"
    /\ messages[2].role = "assistant" /\ messages[2].text = "b"
    /\ messages[1].id # messages[2].id
    /\ liveTranscript = ""

\* C10: a malformed message event leaves the finalized log, the in-progress
\* utterance, the speaker indicator and the call state unchanged.
C10_MalformedIgnored ==
    [][(op'.name = "message" /\ op'.msg \in MalformedMsgs)
       => UNCHANGED <<messages, uuids, liveTranscript, currentRole, callStarted,
                      vapiInstance, loading, vapiHandlersRef>>]_vars

\* C10 witness: a payload whose role is a number arrived while an utterance was in
\* progress and one was finalized, and both are still there.
C10_Witness ==
    /\ op = Op("message", Null, Obj(Str("transcript"), Num("7"), Str("final"), Str("a")))
    /\ liveTranscript = "a"
    /\ currentRole = Str("user")
    /\ Len(messages) = 1
    /\ callStarted

(* ------------------------------ C11 ----------------------------------- *)

\* The fields handleError reads, in the order it tries them.
Candidates(err) ==
    <<err.errorMsg,
      IF err.error.obj THEN err.error.errorMsg ELSE Undef,
      IF err.error.obj THEN err.error.message ELSE Undef,
      IF err.error.obj /\ err.error.error.obj THEN err.error.error.message ELSE Undef,
      err.message>>

SeveralLevels(err) ==
    /\ IsString(err.message)
    /\ err.error.obj /\ IsString(err.error.message)
    /\ err.error.error.obj /\ IsString(err.error.error.message)

\* C11 as stated: the notified message is the first match among the direct message
\* field, the message of the error sub-object, the message two levels down, the
\* input itself when it is a string, and the fixed fallback; so with messages at
\* several levels the shallowest one is notified.
C11_ShallowestMessageFirst ==
    op.name = "error" =>
        LET err == op.err
            ms == <<err.message, Candidates(err)[3], Candidates(err)[4]>>
            hits == {i \in 1..3 : Truthy(ms[i])}
        IN  IF hits # {} THEN toast = ms[CHOOSE i \in hits : \A j \in hits : i <= j].val
            ELSE IF IsString(err.str) THEN toast = err.str.val
            ELSE toast = Fallback

\* C11 amended: the notified message is the first non-empty string among errorMsg,
\* error.errorMsg, error.message, error.error.message and message, in that order;
\* failing those, the input itself when it is a string; failing that, the fallback
\* "Call ended unexpectedly.".  {error: {error: {message: X}}} gives X and {} gives
\* the fallback.
C11_ResolutionOrder ==
    op.name = "error" =>
        LET err == op.err
            cs == Candidates(err)
            hits == {i \in 1..5 : IsString(cs[i]) /\ cs[i].val # ""}
        IN  /\ hits # {} => toast = cs[CHOOSE i \in hits : \A j \in hits : i <= j].val
            /\ hits = {} /\ IsString(err.str) => toast = err.str.val
            /\ hits = {} /\ ~IsString(err.str) => toast = "Call ended unexpectedly."
            /\ err = ErrObj(Undef, Undef, Sub(Undef, Undef, Inner(Str("error.error.message"))))
                   => toast = "error.error.message"
            /\ err = NoErr => toast = "Call ended unexpectedly."

\* An error with messages at all three levels has been notified: the one under
\* error was chosen.
C11_Witness ==
    /\ op.name = "error"
    /\ SeveralLevels(op.err)
    /\ ~Truthy(op.err.errorMsg) /\ ~Truthy(op.err.error.errorMsg)
    /\ toast = "error.message"

(* ------------------------------ C12 ----------------------------------- *)

\* No Vapi object was ever created: no channel handle, no listener, and no
\* vapi.start() (which StartCall issues only on the object it has just created).
NoChannel ==
    /\ calls = 0 /\ listeners = <<>>
    /\ vapiInstance = Null /\ vapiHandlersRef = Null

\* C12: a Start Call with the session loaded but no API key fails at once: no
\* channel handle, no listener, no start request, loading false, state idle, the
\* missing-key notification raised; while no session is loaded a start changes
\* nothing either.
C12_StartWithoutKeyFails ==
    /\ (op.name = "start" /\ ~apiKey) =>
           /\ op.chan = Null /\ NoChannel
           /\ ~loading /\ ~callStarted
           /\ toast = MissingKeyToast
    /\ ~sessionDetail => NoChannel /\ ~loading /\ ~callStarted

\* Start Call was clicked with the session loaded and no API key.
C12_Witness ==
    /\ op.name = "start" /\ ~apiKey /\ sessionDetail
    /\ toast = MissingKeyToast

(* ------------------------------ C13 ----------------------------------- *)

\* C13: while a channel open awaits its call-start event, or a report submission
\* has not returned, loading is true, so that the Start Call and Disconnect
\* buttons are disabled.
C13_BusyWhileInFlight ==
    /\ inflight # {} => loading
    /\ (vapiInstance # Null /\ ~callStarted) => loading

(* ------------------------------ C14 ----------------------------------- *)

C15_ReportLogIsLogAtStop ==
    [][ /\ op'.name = "endCall" =>
               /\ Len(reports') = Len(reports) + 1
               /\ reports'[Len(reports')].log = messages
        /\ \A i \in DOMAIN reports : reports'[i] = reports[i]
      ]_vars

\* A report was posted with a non-empty log, and an utterance finalized after the
\* click is in the log but not in the report.
C15_Witness ==
    \E i \in DOMAIN reports :
        /\ reports[i].log # <<>>
        /\ Len(messages) > Len(reports[i].log)
        /\ SubSeq(messages, 1, Len(reports[i].log)) = reports[i].log

(* ------------------------------ C16 ----------------------------------- *)

\* vapi.start() was issued on the channel the component holds and its call-start
\* event has not been handled.
Connecting ==
    /\ vapiInstance # Null
    /\ ~callStarted
    /\ op.name = "start" /\ op.chan = vapiInstance

\* C16: while the call is connecting a stop request is accepted (and then tears the
\* half-opened channel down).
C16_StopWhileConnecting == Connecting => DisconnectAccepted

(* ------------------------------ C17 ----------------------------------- *)

C18_IndicatorIndependent ==
    [][ /\ (op'.name \in {"speech-start", "speech-end"} /\ liveTranscript # "")
               => currentRole' = currentRole
        /\ (op'.name = "message" /\ IsTranscript(op'.msg)
                /\ currentRole \in {Str("assistant"), Str("user")}
                /\ op \in {Op("speech-start", Null, NoMsg), Op("speech-end", Null, NoMsg)})
               => currentRole' = currentRole
      ]_vars

(* ------------------------------ C19 ----------------------------------- *)

\* C19: an endCall that resumes for channel A while the component holds another
\* channel B leaves B alone: B's call state, handle and handler record stay as
\* they are, and B is not left open with its listeners while the state reads
\* idle.
C19_StopTearsDownOwnCall ==
    [][ (op'.name \in {"resolve", "reject"} /\ op'.chan # Null
             /\ vapiInstance # Null /\ vapiInstance # op'.chan) =>
            /\ vapiInstance' = vapiInstance
            /\ vapiHandlersRef' = vapiHandlersRef
            /\ callStarted' = callStarted
            /\ ~(/\ ~callStarted' /\ vapiInstance' = Null
                 /\ listeners'[vapiInstance] # {}
                 /\ vapiInstance \notin stopped')
      ]_vars

(* ------------------------------ C20 ----------------------------------- *)

\* C20: whenever the call is shown as connected the component holds its channel
\* handle and its handler record, so that a Disconnect in that state can close
\* the channel and return to idle.
C20_ConnectedHasHandle ==
    callStarted => vapiInstance # Null /\ vapiHandlersRef # Null

(* ------------------------------ C21 ----------------------------------- *)

\* C21: whenever a call is started the finalized log is empty, so that the log a
\* report carries holds only what was finalized during the call it is for.
C21_LogEmptyAtStart ==
    (op.name = "start" /\ op.chan # Null) => messages = <<>>

=============================================================================
